---- MODULE Spec2Model ----
(***************************************************************************)
(* The Countries page of qraph.jsx: one GraphQL query, and a table whose   *)
(* rows are derived on every render from the fetched list, the sort state, *)
(* the filter state and the pagination state, plus the Excel export.       *)
(*                                                                         *)
(* JavaScript strings are sequences of UTF-16 code units (integers), so    *)
(* that toLowerCase, includes and the relational operators are computed    *)
(* the way the engine computes them.  null is the one-element sequence     *)
(* <<-1>>, which is no string (a code unit is never negative).             *)
(***************************************************************************)
EXTENDS Integers, Sequences, FiniteSets

\* ------------------------------------------------------------------ bounds
\* The longest list the query resolves with.
MaxCountries == 7
\* How many of the rowsPerPageOptions (taken from the front) the user picks.
NumPageSizes == 2
\* How many times the export button is clicked during one mount.
MaxExports == 2

\* ------------------------------------------------------- JavaScript values
NULL == <<-1>>

Min(a, b) == IF a < b THEN a ELSE b

\* String.prototype.toLowerCase on one code unit: A..Z (65..90) map to a..z.
LowerUnit(u) == IF u >= 65 /\ u <= 90 THEN u + 32 ELSE u

ToLowerCase(s) == [i \in 1..Len(s) |-> LowerUnit(s[i])]

\* String.prototype.includes: some offset at which t occurs in s.
Includes(s, t) ==
  \E i \in 0..(Len(s) - Len(t)) : SubSeq(s, i + 1, i + Len(t)) = t

\* ToBoolean of a string-or-null value: null and '' are falsy.
Truthy(v) == v # NULL /\ v # <<>>

\* The relational comparison of two strings: by code units, a proper prefix
\* first.
StrLess(x, y) ==
  \E k \in 1..(Min(Len(x), Len(y)) + 1) :
    /\ \A j \in 1..(k - 1) : x[j] = y[j]
    /\ \/ k > Len(x) /\ k <= Len(y)
       \/ k <= Len(x) /\ k <= Len(y) /\ x[k] < y[k]

\* String.fromCharCode(32) and the decimal digits.
IsWhite(u) == u = 32 \/ u = 9 \/ u = 10 \/ u = 13

IsDigit(u) == u >= 48 /\ u <= 57

RECURSIVE DigitsValue(_)
DigitsValue(s) ==
  IF s = <<>> THEN 0 ELSE 10 * DigitsValue(SubSeq(s, 1, Len(s) - 1)) + (s[Len(s)] - 48)

\* ToNumber of a primitive: null is 0, a blank string is 0, a string of
\* digits is its value, any other string is NaN.
ToNumber(v) ==
  IF v = NULL THEN [nan |-> FALSE, n |-> 0]
  ELSE IF \A i \in 1..Len(v) : IsWhite(v[i]) THEN [nan |-> FALSE, n |-> 0]
  ELSE IF \A i \in 1..Len(v) : IsDigit(v[i]) THEN [nan |-> FALSE, n |-> DigitsValue(v)]
  ELSE [nan |-> TRUE, n |-> 0]

\* x < y on primitives: two strings compare as strings, anything else as
\* numbers, and a comparison with NaN is false.
JsLess(x, y) ==
  IF x # NULL /\ y # NULL THEN StrLess(x, y)
  ELSE LET nx == ToNumber(x)
           ny == ToNumber(y)
       IN  ~nx.nan /\ ~ny.nan /\ nx.n < ny.n

\* Number.prototype.toString and parseInt(s, 10) on a non-negative integer.
RECURSIVE DecimalString(_)
DecimalString(n) ==
  IF n < 10 THEN <<48 + n>> ELSE Append(DecimalString(n \div 10), 48 + (n % 10))

RECURSIVE LeadingDigits(_)
LeadingDigits(s) ==
  IF s = <<>> \/ ~IsDigit(s[1]) THEN <<>> ELSE <<s[1]>> \o LeadingDigits(Tail(s))

ParseInt(s) == DigitsValue(LeadingDigits(s))

\* Array.prototype.join on an array of strings.
RECURSIVE Join(_, _)
Join(strs, sep) ==
  IF strs = <<>> THEN <<>>
  ELSE IF Len(strs) = 1 THEN strs[1]
  ELSE strs[1] \o sep \o Join(Tail(strs), sep)

\* Array.prototype.slice(start, end) with 0 <= start <= end.
Slice(arr, start, end) == SubSeq(arr, start + 1, Min(end, Len(arr)))

\* Object.prototype.toString of a plain object, "[object Object]", and the
\* string an array of language objects converts to.
ObjectObject == <<91, 111, 98, 106, 101, 99, 116, 32, 79, 98, 106, 101, 99, 116, 93>>

ArrayToString(arr) == Join([i \in 1..Len(arr) |-> ObjectObject], <<44>>)

\* ------------------------------------------------------------ the service
\* Country records as the query of GET_COUNTRIES returns them (emoji is
\* fetched and never read).  capital and currency are nullable in the
\* service's schema; name, native and a language's name are not.
\* Chad: native Tchad, capital Ndjamena, currency XAF, languages French, Arabic
Chad ==
  [name |-> <<67, 104, 97, 100>>,
   native |-> <<84, 99, 104, 97, 100>>,
   capital |-> <<78, 100, 106, 97, 109, 101, 110, 97>>,
   currency |-> <<88, 65, 70>>,
   languages |-> <<[code |-> <<102, 114>>, name |-> <<70, 114, 101, 110, 99, 104>>], [code |-> <<97, 114>>, name |-> <<65, 114, 97, 98, 105, 99>>]>>]

\* Antarctica: native Antarctica, capital null, currency null, languages none
Antarctica ==
  [name |-> <<65, 110, 116, 97, 114, 99, 116, 105, 99, 97>>,
   native |-> <<65, 110, 116, 97, 114, 99, 116, 105, 99, 97>>,
   capital |-> NULL,
   currency |-> NULL,
   languages |-> <<>>]

\* Benin: native Benin, capital Porto-Novo, currency XOF, languages French
Benin ==
  [name |-> <<66, 101, 110, 105, 110>>,
   native |-> <<66, 101, 110, 105, 110>>,
   capital |-> <<80, 111, 114, 116, 111, 45, 78, 111, 118, 111>>,
   currency |-> <<88, 79, 70>>,
   languages |-> <<[code |-> <<102, 114>>, name |-> <<70, 114, 101, 110, 99, 104>>]>>]

\* Gabon: native Gabon, capital Libreville, currency XAF, languages French
Gabon ==
  [name |-> <<71, 97, 98, 111, 110>>,
   native |-> <<71, 97, 98, 111, 110>>,
   capital |-> <<76, 105, 98, 114, 101, 118, 105, 108, 108, 101>>,
   currency |-> <<88, 65, 70>>,
   languages |-> <<[code |-> <<102, 114>>, name |-> <<70, 114, 101, 110, 99, 104>>]>>]

\* Bouvet Island: native Bouvetoya, capital null, currency NOK, languages Norwegian
BouvetIsland ==
  [name |-> <<66, 111, 117, 118, 101, 116, 32, 73, 115, 108, 97, 110, 100>>,
   native |-> <<66, 111, 117, 118, 101, 116, 111, 121, 97>>,
   capital |-> NULL,
   currency |-> <<78, 79, 75>>,
   languages |-> <<[code |-> <<110, 111>>, name |-> <<78, 111, 114, 119, 101, 103, 105, 97, 110>>]>>]

\* Togo: native Togo, capital Lome, currency XOF, languages French
Togo ==
  [name |-> <<84, 111, 103, 111>>,
   native |-> <<84, 111, 103, 111>>,
   capital |-> <<76, 111, 109, 101>>,
   currency |-> <<88, 79, 70>>,
   languages |-> <<[code |-> <<102, 114>>, name |-> <<70, 114, 101, 110, 99, 104>>]>>]

\* Ghana: native Ghana, capital Accra, currency GHS, languages English
Ghana ==
  [name |-> <<71, 104, 97, 110, 97>>,
   native |-> <<71, 104, 97, 110, 97>>,
   capital |-> <<65, 99, 99, 114, 97>>,
   currency |-> <<71, 72, 83>>,
   languages |-> <<[code |-> <<101, 110>>, name |-> <<69, 110, 103, 108, 105, 115, 104>>]>>]

\* Mali: native Mali, capital Bamako, currency XOF, languages French, Bambara
Mali ==
  [name |-> <<77, 97, 108, 105>>,
   native |-> <<77, 97, 108, 105>>,
   capital |-> <<66, 97, 109, 97, 107, 111>>,
   currency |-> <<88, 79, 70>>,
   languages |-> <<[code |-> <<102, 114>>, name |-> <<70, 114, 101, 110, 99, 104>>], [code |-> <<98, 109>>, name |-> <<66, 97, 109, 98, 97, 114, 97>>]>>]

\* Aruba: native Aruba, capital Oranjestad, currency AWG, languages Dutch
Aruba ==
  [name |-> <<65, 114, 117, 98, 97>>,
   native |-> <<65, 114, 117, 98, 97>>,
   capital |-> <<79, 114, 97, 110, 106, 101, 115, 116, 97, 100>>,
   currency |-> <<65, 87, 71>>,
   languages |-> <<[code |-> <<110, 108>>, name |-> <<68, 117, 116, 99, 104>>]>>]

\* The service's list, in the order it answers.
World == <<Chad, Antarctica, Benin, Gabon, BouvetIsland, Togo, Ghana, Mali, Aruba>>

\* What the query can resolve with: the first n countries of the service.
Responses == { SubSeq(World, 1, n) : n \in 0..MaxCountries }

\* The texts typed into a filter field: '' and "A".
FilterTexts == { <<>>, <<65>> }

\* The message of the error a failed query carries.
NetworkError == "Failed to fetch"

\* ------------------------------------------------------------- the columns
HeadCellIds == <<"name", "native", "capital", "languages", "currency">>

HeadCellIdSet == { HeadCellIds[i] : i \in 1..Len(HeadCellIds) }

RowsPerPageOptions == <<5, 10, 25, 50, 100, 251>>

\* The options the user picks among.
PageSizes == { RowsPerPageOptions[i] : i \in 1..Min(NumPageSizes, Len(RowsPerPageOptions)) }

\* The height in pixels of one table row.
RowHeight == 53

\* The engines of Array.prototype.sort.  Both sort by insertion and differ
\* in how they look for the place of the next element; they agree whenever
\* the comparator is a consistent one, and an inconsistent comparator leaves
\* the order to the engine.
SortEngines == { "linear", "binary" }

\* --------------------------------------------------------------- the state
VARIABLES
  loading,      \* useQuery's loading flag
  error,        \* useQuery's error: "undefined" or the error's message
  data,         \* useQuery's data: UNDEFINED or [countries |-> the list]
  engine,       \* the sort engine of the browser the page runs in
  order,        \* "asc" or "desc"
  orderBy,      \* the sort column
  page,         \* zero-based page index
  rowsPerPage,  \* page size
  filters,      \* column id -> filter text
  exports,      \* the calls of exportToExcel, in click order
  objectURLs,   \* the object URLs the browser holds (created, not revoked)
  urlCount,     \* how many object URLs were created
  downloads     \* how many downloads were started

vars ==
  <<loading, error, data, engine, order, orderBy, page, rowsPerPage, filters,
    exports, objectURLs, urlCount, downloads>>

queryVars == <<loading, error, data, engine>>

tableVars == <<order, orderBy, page, rowsPerPage, filters>>

exportVars == <<exports, objectURLs, urlCount, downloads>>

UNDEFINED == [undefined |-> TRUE]

\* ------------------------------------------------------------------ sorting
\* The comparison operands of a[orderBy] < b[orderBy]: the languages array
\* is converted to its string, every other column is a string or null.
SortKey(country, column) ==
  IF column = "languages" THEN ArrayToString(country.languages) ELSE country[column]

descendingComparator(a, b, column) ==
  IF JsLess(SortKey(b, column), SortKey(a, column)) THEN -1
  ELSE IF JsLess(SortKey(a, column), SortKey(b, column)) THEN 1
  ELSE 0

getComparator(dir, column, a, b) ==
  IF dir = "desc" THEN descendingComparator(a, b, column)
  ELSE -descendingComparator(a, b, column)

\* The comparator stableSort hands to Array.prototype.sort, on [el, index]
\* pairs.
StabilizedCompare(dir, column, a, b) ==
  LET ord == getComparator(dir, column, a[1], b[1])
  IN  IF ord # 0 THEN ord ELSE a[2] - b[2]

\* array.map((el, index) => [el, index])
Stabilize(array) == [i \in 1..Len(array) |-> <<array[i], i - 1>>]

\* How many elements of the sorted prefix stay in front of x: the engine
\* walks down from the end of the prefix ...
RECURSIVE LinearPlace(_, _, _, _, _)
LinearPlace(sorted, x, dir, column, i) ==
  IF i = 0 THEN 0
  ELSE IF StabilizedCompare(dir, column, sorted[i], x) > 0
       THEN LinearPlace(sorted, x, dir, column, i - 1)
       ELSE i

\* ... or bisects the prefix.
RECURSIVE BinaryPlace(_, _, _, _, _, _)
BinaryPlace(sorted, x, dir, column, left, right) ==
  IF left >= right THEN left
  ELSE LET mid == (left + right) \div 2
       IN  IF StabilizedCompare(dir, column, x, sorted[mid + 1]) < 0
           THEN BinaryPlace(sorted, x, dir, column, left, mid)
           ELSE BinaryPlace(sorted, x, dir, column, mid + 1, right)

InsertAt(sorted, k, x) == SubSeq(sorted, 1, k) \o <<x>> \o SubSeq(sorted, k + 1, Len(sorted))

\* Array.prototype.sort with the stabilized comparator, n elements sorted so
\* far.
RECURSIVE ArraySort(_, _, _, _, _)
ArraySort(arr, dir, column, eng, n) ==
  IF n = 0 THEN <<>>
  ELSE LET sorted == ArraySort(arr, dir, column, eng, n - 1)
           k == IF eng = "linear"
                THEN LinearPlace(sorted, arr[n], dir, column, n - 1)
                ELSE BinaryPlace(sorted, arr[n], dir, column, 0, n - 1)
       IN  InsertAt(sorted, k, arr[n])

\* stabilizedThis after its sort.
StabilizedSorted(array, dir, column, eng) ==
  ArraySort(Stabilize(array), dir, column, eng, Len(array))

stableSort(array, dir, column, eng) ==
  LET st == StabilizedSorted(array, dir, column, eng)
  IN  [i \in 1..Len(st) |-> st[i][1]]

\* ---------------------------------------------------------------- filtering
\* The callback with the filter text compared as typed (the slip of leaving
\* its toLowerCase out).
FilterKeyPassesRawText(country, flt, filterKey) ==
  IF flt[filterKey] = <<>> THEN TRUE
  ELSE IF filterKey = "languages"
  THEN \E i \in 1..Len(country.languages) :
         Includes(ToLowerCase(country.languages[i].name), flt[filterKey])
  ELSE IF filterKey \in {"currency", "capital"}
  THEN Truthy(country[filterKey])
       /\ Includes(ToLowerCase(country[filterKey]), flt[filterKey])
  ELSE Includes(ToLowerCase(country[filterKey]), flt[filterKey])

\* The callback of Object.keys(filters).every in applyFilters, for one key.
FilterKeyPasses(country, flt, filterKey) ==
  IF flt[filterKey] = <<>> THEN TRUE
  ELSE IF filterKey = "languages"
  THEN LET filterValue == ToLowerCase(flt[filterKey])
           countryLanguages ==
             [i \in 1..Len(country.languages) |-> ToLowerCase(country.languages[i].name)]
       IN  \E i \in 1..Len(countryLanguages) : Includes(countryLanguages[i], filterValue)
  ELSE IF filterKey = "currency"
  THEN Truthy(country.currency)
       /\ Includes(ToLowerCase(country.currency), ToLowerCase(flt[filterKey]))
  ELSE IF filterKey = "capital"
  THEN Truthy(country.capital)
       /\ Includes(ToLowerCase(country.capital), ToLowerCase(flt[filterKey]))
  ELSE Includes(ToLowerCase(country[filterKey]), ToLowerCase(flt[filterKey]))

\* Whether the callback calls toLowerCase on null for this key, which throws
\* a TypeError.
FilterKeyThrows(country, flt, filterKey) ==
  IF flt[filterKey] = <<>> THEN FALSE
  ELSE IF filterKey = "languages"
  THEN \E i \in 1..Len(country.languages) : country.languages[i].name = NULL
  ELSE IF filterKey = "currency"
  THEN Truthy(country.currency) /\ country.currency = NULL
  ELSE IF filterKey = "capital"
  THEN Truthy(country.capital) /\ country.capital = NULL
  ELSE country[filterKey] = NULL

applyFilters(country, flt) ==
  \A filterKey \in DOMAIN flt : FilterKeyPasses(country, flt, filterKey)

applyFiltersThrows(country, flt) ==
  \E filterKey \in DOMAIN flt : FilterKeyThrows(country, flt, filterKey)

\* ------------------------------------------------------------ derived state
\* Countries without its early return on error.
ViewWithoutErrorCheck == IF loading THEN "placeholder" ELSE "table"

\* What Countries returns: the placeholder, the alert or the table.
View ==
  IF loading THEN "placeholder"
  ELSE IF error # "undefined" THEN "alert"
  ELSE "table"

\* stableSort(data.countries, getComparator(order, orderBy)).filter(applyFilters)
SortedAndFiltered(countries, dir, column, flt, eng) ==
  SelectSeq(stableSort(countries, dir, column, eng), LAMBDA c : applyFilters(c, flt))

sortedAndFilteredData == SortedAndFiltered(data.countries, order, orderBy, filters, engine)

\* The slice of one page with its end one row early.
PageSliceShort(rows, p, size) == Slice(rows, p * size, p * size + size - 1)

\* The slice of one page.
PageSlice(rows, p, size) == Slice(rows, p * size, p * size + size)

\* The rows of the table body.
VisibleRows == PageSlice(sortedAndFilteredData, page, rowsPerPage)

emptyRows ==
  rowsPerPage - Min(rowsPerPage, Len(sortedAndFilteredData) - page * rowsPerPage)

\* The height of the padding row, which is rendered when emptyRows > 0.
PaddingHeight == IF emptyRows > 0 THEN RowHeight * emptyRows ELSE 0

CeilDiv(a, b) == (a + b - 1) \div b

\* --------------------------------------------------------------- the query
Init ==
  /\ loading = TRUE
  /\ error = "undefined"
  /\ data = UNDEFINED
  /\ engine \in SortEngines
  /\ order = "asc"
  /\ orderBy = "name"
  /\ page = 0
  /\ rowsPerPage = 5
  /\ filters = [k \in {"name", "capital", "currency"} |-> <<>>]
  /\ exports = <<>>
  /\ objectURLs = {}
  /\ urlCount = 0
  /\ downloads = 0

\* The query resolves: useQuery yields the list.
QueryResolves(countries) ==
  /\ loading
  /\ loading' = FALSE
  /\ data' = [countries |-> countries]
  /\ UNCHANGED <<error, engine>>
  /\ UNCHANGED tableVars
  /\ UNCHANGED exportVars

\* The query fails: useQuery yields the error and no data.
QueryRejects ==
  /\ loading
  /\ loading' = FALSE
  /\ error' = NetworkError
  /\ UNCHANGED <<data, engine>>
  /\ UNCHANGED tableVars
  /\ UNCHANGED exportVars

\* ------------------------------------------------------------ the handlers
\* The sort state when isAsc leaves the column out of account.
RequestSortAnyColumn(dir, column, property) ==
  [order |-> IF dir = "asc" THEN "desc" ELSE "asc", orderBy |-> property]

\* The sort state after handleRequestSort(event, property).
RequestSort(dir, column, property) ==
  LET isAsc == column = property /\ dir = "asc"
  IN  [order |-> IF isAsc THEN "desc" ELSE "asc", orderBy |-> property]

handleRequestSort(property) ==
  /\ View = "table"
  /\ order' = RequestSort(order, orderBy, property).order
  /\ orderBy' = RequestSort(order, orderBy, property).orderBy
  /\ UNCHANGED <<page, rowsPerPage, filters>>
  /\ UNCHANGED queryVars
  /\ UNCHANGED exportVars

\* The pages TablePagination's enabled buttons ask for: the previous page
\* unless page is 0, the next page unless page is the last one or beyond.
\* The widget is part of the table.
OfferedPages ==
  IF View # "table" THEN {}
  ELSE (IF page > 0 THEN {page - 1} ELSE {})
       \cup (IF page < CeilDiv(Len(sortedAndFilteredData), rowsPerPage) - 1
             THEN {page + 1} ELSE {})

handleChangePage(newPage) ==
  /\ View = "table"
  /\ newPage \in OfferedPages
  /\ page' = newPage
  /\ UNCHANGED <<order, orderBy, rowsPerPage, filters>>
  /\ UNCHANGED queryVars
  /\ UNCHANGED exportVars

\* The page index left as it is.
KeepPage == page

\* The page index handleChangeRowsPerPage sets.
ResetPage == 0

\* event.target.value is the chosen option as the select renders it.
handleChangeRowsPerPage(option) ==
  /\ View = "table"
  /\ rowsPerPage' = ParseInt(DecimalString(option))
  /\ page' = ResetPage
  /\ UNCHANGED <<order, orderBy, filters>>
  /\ UNCHANGED queryVars
  /\ UNCHANGED exportVars

\* { ...filters, [filterKey]: event.target.value }
WithFilter(flt, filterKey, value) ==
  [k \in DOMAIN flt \cup {filterKey} |-> IF k = filterKey THEN value ELSE flt[k]]

handleFilterChange(filterKey, value) ==
  /\ View = "table"
  /\ filters' = WithFilter(filters, filterKey, value)
  /\ UNCHANGED <<order, orderBy, page, rowsPerPage>>
  /\ UNCHANGED queryVars
  /\ UNCHANGED exportVars

\* --------------------------------------------------------------- the export
\* ['Name', 'Capital', 'Currency', 'Languages', "Native"]
HeaderRow ==
  <<<<78, 97, 109, 101>>,
    <<67, 97, 112, 105, 116, 97, 108>>,
    <<67, 117, 114, 114, 101, 110, 99, 121>>,
    <<76, 97, 110, 103, 117, 97, 103, 101, 115>>,
    <<78, 97, 116, 105, 118, 101>>>>

\* The row exportToExcel adds for one country: four cells.
ExportRow(country) ==
  LET languages ==
        Join([i \in 1..Len(country.languages) |-> country.languages[i].name], <<44, 32>>)
  IN  <<country.name, country.capital, country.currency, languages>>

\* The rows of the current page only.
ExportedRowsOfPage == VisibleRows

\* The list exportToExcel walks.
ExportedRows == sortedAndFilteredData

\* The worksheet when exportToExcel reaches its await.
BuildWorksheet(rows) == <<HeaderRow>> \o [i \in 1..Len(rows) |-> ExportRow(rows[i])]

\* The store with the revoke left out.
RevokeNoObjectURL(store, url) == store

\* URL.revokeObjectURL(url) on the browser's store of object URLs.
RevokeObjectURL(store, url) == store \ {url}

\* A click on the export button: exportToExcel runs up to its await of
\* workbook.xlsx.writeBuffer().
exportToExcel ==
  /\ View = "table"
  /\ Len(exports) < MaxExports
  /\ exports' = Append(exports, [pc |-> "writeBuffer", worksheet |-> BuildWorksheet(ExportedRows)])
  /\ UNCHANGED <<objectURLs, urlCount, downloads>>
  /\ UNCHANGED queryVars
  /\ UNCHANGED tableVars

\* writeBuffer() of export i resolves and exportToExcel runs to its end in
\* one task: the Blob, the object URL, the anchor and its click, the revoke.
\* A click on an anchor returns whether the browser starts the download or
\* blocks it; neither it nor createElement nor the two assignments throws.
\* The workbook is garbage once the call has ended.
WriteBufferResolves(i, started) ==
  /\ i \in 1..Len(exports)
  /\ exports[i].pc = "writeBuffer"
  /\ LET url == urlCount + 1
         created == objectURLs \cup {url}
     IN  /\ urlCount' = url
         /\ downloads' = downloads + (IF started THEN 1 ELSE 0)
         /\ objectURLs' = RevokeObjectURL(created, url)
  /\ exports' = [exports EXCEPT ![i] = [pc |-> "done", worksheet |-> <<>>]]
  /\ UNCHANGED queryVars
  /\ UNCHANGED tableVars

\* writeBuffer() of export i rejects, or the Blob or the object URL cannot be
\* made: exportToExcel ends with the exception, before any object URL exists.
ExportThrows(i) ==
  /\ i \in 1..Len(exports)
  /\ exports[i].pc = "writeBuffer"
  /\ exports' = [exports EXCEPT ![i] = [pc |-> "threw", worksheet |-> <<>>]]
  /\ UNCHANGED <<objectURLs, urlCount, downloads>>
  /\ UNCHANGED queryVars
  /\ UNCHANGED tableVars

\* ------------------------------------------------------- the specifications
\* The table: the query and the four handlers, with every column and every
\* filter text.
Next ==
  \/ \E countries \in Responses : QueryResolves(countries)
  \/ QueryRejects
  \/ \E property \in HeadCellIdSet : handleRequestSort(property)
  \/ \E newPage \in OfferedPages : handleChangePage(newPage)
  \/ \E option \in PageSizes : handleChangeRowsPerPage(option)
  \/ \E filterKey \in HeadCellIdSet, value \in FilterTexts : handleFilterChange(filterKey, value)

Spec == Init /\ [][Next]_vars

\* The export: the query, the handlers on the currency column, and the
\* export button.
ExportNext ==
  \/ \E countries \in Responses : QueryResolves(countries)
  \/ QueryRejects
  \/ \E property \in {"currency"} : handleRequestSort(property)
  \/ \E newPage \in OfferedPages : handleChangePage(newPage)
  \/ \E option \in PageSizes : handleChangeRowsPerPage(option)
  \/ \E value \in FilterTexts : handleFilterChange("currency", value)
  \/ exportToExcel
  \/ \E i \in 1..MaxExports, started \in BOOLEAN : WriteBufferResolves(i, started)
  \/ \E i \in 1..MaxExports : ExportThrows(i)

ExportSpec == Init /\ [][ExportNext]_vars

\* ------------------------------------------------------------------ claims
Range(seq) == { seq[i] : i \in 1..Len(seq) }

IsLetter(u) == (u >= 65 /\ u <= 90) \/ (u >= 97 /\ u <= 122)

\* Two code units that are the same letter in either case, or the same unit.
SameIgnoringCase(u, v) ==
  u = v \/ (IsLetter(u) /\ IsLetter(v) /\ (u - v = 32 \/ v - u = 32))

\* text occurs in value at some offset, letter case ignored.
ContainsIgnoringCase(value, text) ==
  \E off \in 0..(Len(value) - Len(text)) :
    \A j \in 1..Len(text) : SameIgnoringCase(value[off + j], text[j])

\* The filter of one column matches a country: on languages, one of the
\* language names contains the text; on any other column the value is
\* present and contains it.
ColumnMatches(country, column, text) ==
  IF column = "languages"
  THEN \E i \in 1..Len(country.languages) :
         ContainsIgnoringCase(country.languages[i].name, text)
  ELSE country[column] # NULL /\ ContainsIgnoringCase(country[column], text)

\* C1: a country of the fetched list passes applyFilters, and is a row of
\* the filtered list, exactly when every filter with a non-empty text matches
\* it, case ignored; a missing capital or currency matches no non-empty
\* filter and applyFilters does not throw on it; the filtered list is no
\* longer than the fetched one.
C1_FilteredIffEveryActiveFilterMatches ==
  View = "table" =>
    LET rows == sortedAndFilteredData
        shown == Range(rows)
    IN  /\ \A i \in 1..Len(data.countries) :
             LET country == data.countries[i]
                 matches == \A column \in DOMAIN filters :
                              filters[column] # <<>>
                                => ColumnMatches(country, column, filters[column])
             IN  /\ ~applyFiltersThrows(country, filters)
                 /\ applyFilters(country, filters) <=> matches
                 /\ country \in shown <=> matches
                 /\ \A column \in {"capital", "currency"} :
                      (/\ column \in DOMAIN filters
                       /\ filters[column] # <<>>
                       /\ country[column] = NULL) => ~applyFilters(country, filters)
        /\ Len(rows) <= Len(data.countries)

\* C1's case: a capital filter is active over a list with a country that has
\* no capital, and it keeps some rows and drops others.
C1_Witness ==
  /\ View = "table"
  /\ filters["capital"] # <<>>
  /\ \E i \in 1..Len(data.countries) : data.countries[i].capital = NULL
  /\ Len(sortedAndFilteredData) > 0
  /\ Len(sortedAndFilteredData) < Len(data.countries)

\* a's key is strictly before b's in the direction.
KeyBefore(a, b, dir, column) ==
  IF dir = "asc" THEN JsLess(SortKey(a, column), SortKey(b, column))
  ELSE JsLess(SortKey(b, column), SortKey(a, column))

\* C2: the sorted list is a permutation of the fetched list in which no row
\* stands behind a row whose sort key is strictly after its own in the
\* chosen direction, and rows with equal sort keys stand in their input
\* order.
C2_StableSortOrdersByKey ==
  View = "table" =>
    LET n == Len(data.countries)
        st == StabilizedSorted(data.countries, order, orderBy, engine)
    IN  /\ Len(st) = n
        /\ { st[i][2] : i \in 1..n } = 0..(n - 1)
        /\ \A i \in 1..n : st[i][1] = data.countries[st[i][2] + 1]
        /\ stableSort(data.countries, order, orderBy, engine) = [i \in 1..n |-> st[i][1]]
        /\ \A i, j \in 1..n :
             i < j =>
               /\ ~KeyBefore(st[j][1], st[i][1], order, orderBy)
               /\ SortKey(st[i][1], orderBy) = SortKey(st[j][1], orderBy) => st[i][2] < st[j][2]

\* The specified pipeline: filter the fetched list, then sort the survivors.
FilteredThenSorted(countries, dir, column, flt, eng) ==
  stableSort(SelectSeq(countries, LAMBDA c : applyFilters(c, flt)), dir, column, eng)

\* C10: the rows of the table and of the export, sorted then filtered, are
\* the rows filtered then sorted.
C10_SortThenFilterIsFilterThenSort ==
  View = "table" =>
    /\ sortedAndFilteredData = FilteredThenSorted(data.countries, order, orderBy, filters, engine)
    /\ ExportedRows = FilteredThenSorted(data.countries, order, orderBy, filters, engine)

\* The pages 0 .. n-1 of rows, one after the other.
RECURSIVE ConcatPages(_, _, _)
ConcatPages(rows, size, n) ==
  IF n = 0 THEN <<>> ELSE ConcatPages(rows, size, n - 1) \o PageSlice(rows, n - 1, size)

\* C3: for the current page size and for every allowed one, the slices of
\* pages 0 .. ceil(count / size) - 1 of the filtered and sorted list, one
\* after the other, are that list.
C3_PagesConcatenateToRows ==
  View = "table" =>
    LET rows == sortedAndFilteredData
    IN  \A size \in Range(RowsPerPageOptions) \cup {rowsPerPage} :
          ConcatPages(rows, size, CeilDiv(Len(rows), size)) = rows

\* C3's case: the list fills more than one page and the last page is short,
\* the second page being shown.
C3_Witness ==
  /\ View = "table"
  /\ page = 1
  /\ Len(sortedAndFilteredData) > rowsPerPage
  /\ Len(sortedAndFilteredData) % rowsPerPage # 0
  /\ Len(VisibleRows) > 0

\* C5: the data rows of the table body and the padding rows add up to the
\* page size.
C5_RowsPlusPaddingIsPageSize ==
  View = "table" =>
    /\ Len(VisibleRows) + emptyRows = rowsPerPage
    /\ RowHeight * Len(VisibleRows) + PaddingHeight = RowHeight * rowsPerPage

\* C4: a call of exportToExcel writes the header row and then one row per
\* row of the filtered and sorted list, in the list's order, whatever the
\* page index and the page size are.
C4_ExportWritesEveryRow ==
  [][Len(exports') > Len(exports) =>
       LET rows == sortedAndFilteredData
           sheet == exports'[Len(exports')].worksheet
       IN  /\ Len(sheet) - 1 = Len(rows)
           /\ sheet[1] = HeaderRow
           /\ \A i \in 1..Len(rows) :
                /\ sheet[i + 1][1] = rows[i].name
                /\ sheet[i + 1][2] = rows[i].capital
                /\ sheet[i + 1][3] = rows[i].currency]_vars

\* C4's case: an export was started from the second page and wrote more rows
\* than a page holds.
C4_Witness ==
  /\ View = "table"
  /\ page = 1
  /\ Len(exports) = 1
  /\ exports[1].pc = "writeBuffer"
  /\ Len(exports[1].worksheet) - 1 = Len(sortedAndFilteredData)
  /\ Len(exports[1].worksheet) - 1 > rowsPerPage

\* C6: the query is loading, failed or ready, one of the three; the
\* placeholder is what is rendered while loading, the alert once failed, the
\* table when ready, and the table only with a fetched list; a failed query
\* stays failed.
C6_ThreeStatesErrorTerminal ==
  /\ [](\/ loading /\ error = "undefined" /\ data = UNDEFINED /\ View = "placeholder"
        \/ ~loading /\ error # "undefined" /\ data = UNDEFINED /\ View = "alert"
        \/ ~loading /\ error = "undefined" /\ data # UNDEFINED /\ View = "table")
  /\ [][View = "alert" => View' = "alert" /\ error' = error /\ data' = UNDEFINED]_vars

\* C6's case: the query has failed.
C6_Witness == ~loading /\ error = NetworkError

\* C7: between two tasks the browser holds no object URL: every call of
\* exportToExcel that created one has revoked it, every call that ended
\* without a download created none, also when a later call ends before an
\* earlier one.
C7_NoObjectURLLeft ==
  /\ objectURLs = {}
  /\ urlCount = Cardinality({ i \in 1..Len(exports) : exports[i].pc = "done" })
  /\ downloads <= urlCount

\* C7's case: two exports were awaiting together, the second has ended with
\* its object URL made and revoked, the first is still awaiting.
C7_Witness ==
  /\ Len(exports) >= 2
  /\ exports[1].pc = "writeBuffer"
  /\ exports[2].pc = "done"
  /\ urlCount = 1

\* C8: a sort request on another column selects it, ascending; a request on
\* the current column keeps it and flips the direction, and a second one
\* restores the sort state and the rows; page index, page size and filters
\* stay as they are.
C8_RequestSortSetsColumnAndDirection ==
  /\ [][<<order, orderBy>>' # <<order, orderBy>> =>
          /\ IF orderBy' # orderBy THEN order' = "asc" ELSE order' # order
          /\ order' \in {"asc", "desc"}
          /\ <<page, rowsPerPage, filters>>' = <<page, rowsPerPage, filters>>]_vars
  /\ [](View = "table" =>
          \A column \in HeadCellIdSet :
            LET once == RequestSort(order, orderBy, column)
                twice == RequestSort(once.order, once.orderBy, column)
            IN  /\ once.orderBy = column
                /\ column # orderBy => once.order = "asc" /\ twice.order = "desc"
                /\ column = orderBy =>
                     /\ once.order # order
                     /\ twice = [order |-> order, orderBy |-> orderBy]
                     /\ SortedAndFiltered(data.countries, twice.order, twice.orderBy,
                                          filters, engine) = sortedAndFilteredData)

\* C8's case: on the second page, with a filter set, another column was
\* requested and then requested again.
C8_Witness ==
  /\ View = "table"
  /\ orderBy = "currency"
  /\ order = "desc"
  /\ page = 1
  /\ filters["name"] # <<>>

\* C9: a step that changes the page size sets the page index to 0, so the
\* page starts at offset 0, which is inside every list; a step that changes
\* a filter leaves page index and page size alone; and a page that starts
\* behind the end of the filtered list shows no row.
C9_PageSizeChangeResetsPage ==
  /\ [][/\ rowsPerPage' # rowsPerPage => page' = 0 /\ page' * rowsPerPage' = 0
        /\ filters' # filters => page' = page /\ rowsPerPage' = rowsPerPage]_vars
  /\ [](View = "table" =>
          LET rows == sortedAndFilteredData
          IN  /\ page * rowsPerPage >= Len(rows) => VisibleRows = <<>>
              /\ page = 0 => page * rowsPerPage <= Len(rows))

\* C9's case: the page size was changed with more rows than the old page
\* size in the list.
C9_Witness ==
  /\ View = "table"
  /\ rowsPerPage = 10
  /\ page = 0
  /\ Len(sortedAndFilteredData) > 5

====
